---- MODULE Spec2Model ----
(***************************************************************************)
(* libband/device.py: the BandDevice facade.                               *)
(*                                                                         *)
(* Caller threads run facade operations statement by statement on the      *)
(* cargo (command) BandSocket; every connect() starts one more thread      *)
(* running listen_pushservice on the push BandSocket.  BandSocket itself   *)
(* (libband/socket.py) is outside the sources at hand: its connect,        *)
(* disconnect, receive and cargo_* calls are modelled from the             *)
(* specification's transport contract, each with every outcome the         *)
(* contract allows (a result, a failed status, a raised OSError).          *)
(*                                                                         *)
(* The facade's decoding and routing helpers (process_push, the record     *)
(* loop of get_firmware_version, the tile table loop of request_tiles) are *)
(* run on their own as well, each over all of its bounded inputs.          *)
(***************************************************************************)
EXTENDS FiniteSets, Integers, Sequences, TLC

\* ---------------------------------------------------------------- bounds
\* Facade calls the main caller thread may begin.
MaxOps == 3
\* Facade calls the second caller thread may begin.
MaxAuxOps == 1
\* Listener threads connect() may start (one per connect()).
MaxListeners == 2
\* Frames the band may push.
MaxFrames == 2
\* Largest tile count a GET_TILES_NO_IMAGES response reports.
MaxTiles == 1
\* Handlers registered in BandDevice.services.
MaxHandlers == 3
\* Largest tile count in a tile table that is decoded field by field.
MaxTileRecords == 2

\* ------------------------------------------------------------- constants
Callers == {"main", "aux"}
Socks == {"cargo", "push"}
Listeners == 1..MaxListeners

\* PushServicePacketType members (device.py:51-64).
WakeApp == 0
RemoteSubscription == 1
Sms == 100
DismissCall == 101
StrappEvent == 204
KeyboardSetContent == 222
PushServicePacketType ==
    {WakeApp, RemoteSubscription, Sms, DismissCall, 200, 201, 202, 203,
     StrappEvent, 205, 206, 220, KeyboardSetContent}

\* Operations of the facade a caller may begin.
LifecycleOps == {"connect", "disconnect"}
CargoOps ==
    {"set_theme", "get_tiles", "get_serial_number", "get_firmware_version",
     "set_tiles", "get_me_tile_image", "check_if_oobe_completed"}
\* versions.BandType
BandTypes == {"Cargo", "Envoy", "Unknown"}
BracketedOps == {"set_theme", "set_tiles"}
Ops == LifecycleOps \cup CargoOps

VARIABLES
    sock,           \* BandSocket state of cargo and push: "closed" | "open"
    opens,          \* connections opened on each socket so far
    closes,         \* connections closed on each socket so far
    pc,             \* each caller thread's position in its current call
    op,             \* each caller thread's current (or last) facade call
    res,            \* how the caller's last call ended: "none"|"ok"|"raised"
    info,           \* the caller's local cargo_read payload
    opsLeft,        \* calls each caller may still begin
    done,           \* calls that returned normally, per operation
    cargoLog,       \* every command put on the cargo channel, in order,
                    \* with the thread and the call that sent it
    version,        \* BandDevice.version
    tiles,          \* BandDevice.tiles
    serial_number,  \* BandDevice.serial_number
    tornDown,       \* disconnect() has returned and no connect() began since
    lpc,            \* each listener thread's position
    cur,            \* each listener thread's local `result`
    pushQ,          \* frames sent by the band, not yet received
    arrived,        \* number of frames the band has pushed
    received,       \* frames returned by push.receive(), in order
    surfaced,       \* outputs handed to the wrapper, in order
    ret,            \* the value the caller's last call returned
    hw,             \* the band at the other end: the BandType its firmware reports
    route,          \* one run of process_push: its arguments and locals
    fw,             \* one run of get_firmware_version's parsing loop
    td              \* one run of request_tiles' decoding of a response

sockVars == <<sock, opens, closes>>
callerVars == <<pc, op, res, info, opsLeft, done, ret>>
\* Runs of the facade's pure helpers, each on inputs of its own.
helperVars == <<route, fw, td>>
cacheVars == <<version, tiles, serial_number>>
pushVars == <<lpc, cur, pushQ, arrived, received, surfaced>>
\* Everything but the helper runs.
deviceVars ==
    <<sockVars, callerVars, cargoLog, cacheVars, tornDown, pushVars, hw>>
vars == <<deviceVars, helperVars>>

\* ------------------------------------------------------- Python values
\* BandDevice.tiles: None, or a list of tiles.
NoTiles == [set |-> FALSE, list |-> <<>>]
TileList(n) == [set |-> TRUE, list |-> [i \in 1..n |-> i]]
\* `not self.tiles`: None and the empty list are both falsy.
TilesFalsy(t) == ~t.set \/ Len(t.list) = 0

\* BandDevice.version: the class body only annotates it, so the attribute
\* does not exist until get_firmware_version assigns it.
NoVersion == [set |-> FALSE, bootloader |-> FALSE, updater |-> FALSE,
              application |-> FALSE]
EmptyVersion == [set |-> TRUE, bootloader |-> FALSE, updater |-> FALSE,
                 application |-> FALSE]
FullVersion == [set |-> TRUE, bootloader |-> TRUE, updater |-> TRUE,
                application |-> TRUE]

NoFrame == [n |-> 0, ptype |-> 0, len |-> 0]

\* No run of process_push.
NoRoute ==
    [st |-> "idle", services |-> <<>>, guid |-> 0, i |-> 0,
     message |-> "original", invoked |-> <<>>]

\* A slot of DeviceVersion no record was stored in.
NoRecord == [app_name |-> "None", body |-> "None"]

\* No run of the parsing loop.
NoFw ==
    [st |-> "idle", info |-> <<>>, offset |-> 0, i |-> 0,
     bootloader |-> NoRecord, updater |-> NoRecord, application |-> NoRecord]

\* No run of the tile table decoding.
NoTd ==
    [st |-> "idle", icons |-> FALSE, records |-> <<>>, begin |-> 0, i |-> 0,
     tile_count |-> 0, tile_list |-> <<>>]

\* The device after construction.
DeviceInit ==
    /\ sock = [s \in Socks |-> "closed"]
    /\ opens = [s \in Socks |-> 0]
    /\ closes = [s \in Socks |-> 0]
    /\ pc = [t \in Callers |-> "idle"]
    /\ op = [t \in Callers |-> "none"]
    /\ res = [t \in Callers |-> "none"]
    /\ info = [t \in Callers |-> "none"]
    /\ opsLeft = [t \in Callers |-> IF t = "main" THEN MaxOps ELSE MaxAuxOps]
    /\ done = [o \in Ops |-> 0]
    /\ cargoLog = <<>>
    /\ version = NoVersion
    /\ tiles = NoTiles
    /\ serial_number = "None"
    /\ tornDown = FALSE
    /\ lpc = [l \in Listeners |-> "unstarted"]
    /\ cur = [l \in Listeners |-> NoFrame]
    /\ pushQ = <<>>
    /\ arrived = 0
    /\ received = <<>>
    /\ surfaced = <<>>
    /\ ret = [t \in Callers |-> "none"]

Init ==
    /\ DeviceInit
    /\ hw = "Cargo"
    /\ route = NoRoute
    /\ fw = NoFw
    /\ td = NoTd

\* ------------------------------------------------ BandSocket (transport)
\* BandSocket.connect: opens the socket's one connection; a socket that is
\* already open keeps its connection.
SockConnect(s) ==
    /\ sock' = [sock EXCEPT ![s] = "open"]
    /\ opens' = IF sock[s] = "closed" THEN [opens EXCEPT ![s] = @ + 1] ELSE opens
    /\ UNCHANGED closes

\* BandSocket.disconnect: closes the connection if there is one; on a socket
\* that is already closed it does nothing and raises nothing.
SockDisconnect(s) ==
    /\ sock' = [sock EXCEPT ![s] = "closed"]
    /\ closes' = IF sock[s] = "open" THEN [closes EXCEPT ![s] = @ + 1] ELSE closes
    /\ UNCHANGED opens

\* The caller's current call: its calls are numbered by the calls it has left.
CallOf(t) == opsLeft[t]

\* A cargo_* call puts its command on the channel when the socket is open.
Put(t, cmd) ==
    cargoLog' = IF sock["cargo"] = "open"
                THEN Append(cargoLog, [t |-> t, call |-> CallOf(t), cmd |-> cmd])
                ELSE cargoLog

\* Outcomes of BandSocket.cargo_write: sent, or OSError raised.
WriteOutcomes == IF sock["cargo"] = "open" THEN {"ok", "raise"} ELSE {"raise"}
\* Outcomes of cargo_write_with_data and cargo_read: a good result, a failed
\* result status returned to the caller, or an error raised (transport
\* failure, timeout, disconnected).
ResultOutcomes ==
    IF sock["cargo"] = "open" THEN {"ok", "fail", "raise"} ELSE {"raise"}

\* ------------------------------------------------------- caller threads
FirstPc(o) ==
    CASE o = "connect" -> "connect_cargo"
      [] o = "disconnect" -> "disconnect_push"
      [] o = "set_theme" -> "st_start"
      [] o = "get_tiles" -> "gt_check"
      [] o = "get_serial_number" -> "gsn_check"
      [] o = "get_firmware_version" -> "gfv_read"
      [] o = "set_tiles" -> "stl_start"
      [] o = "get_me_tile_image" -> "gmti_type"
      [] o = "check_if_oobe_completed" -> "oobe_read"

Goto(t, p) ==
    /\ pc' = [pc EXCEPT ![t] = p]
    /\ UNCHANGED <<op, res, opsLeft, done, tornDown, ret, hw, helperVars>>

\* The call ends: it returns value v ("ok") or an exception leaves it
\* ("raised").
EndWith(t, status, v) ==
    /\ pc' = [pc EXCEPT ![t] = "idle"]
    /\ res' = [res EXCEPT ![t] = status]
    /\ ret' = [ret EXCEPT ![t] = v]
    /\ done' = IF status = "ok" THEN [done EXCEPT ![op[t]] = @ + 1] ELSE done
    /\ tornDown' = IF op[t] = "disconnect" /\ status = "ok" THEN TRUE ELSE tornDown
    /\ UNCHANGED <<op, opsLeft, hw, helperVars>>

\* The call ends with no value the model follows.
End(t, status) == EndWith(t, status, "none")

\* Caller thread t calls facade operation o.
Begin(t, o) ==
    /\ pc[t] = "idle"
    /\ opsLeft[t] > 0
    /\ o = "connect" => \E l \in Listeners : lpc[l] = "unstarted"
    /\ pc' = [pc EXCEPT ![t] = FirstPc(o)]
    /\ op' = [op EXCEPT ![t] = o]
    /\ res' = [res EXCEPT ![t] = "none"]
    /\ opsLeft' = [opsLeft EXCEPT ![t] = @ - 1]
    /\ tornDown' = IF o = "connect" THEN FALSE ELSE tornDown
    /\ UNCHANGED <<sockVars, info, done, cargoLog, cacheVars, pushVars, ret,
                   hw, helperVars>>

\* The second caller thread uses the device once connect() has returned.
BeginAux(o) ==
    /\ done["connect"] >= 1
    /\ Begin("aux", o)

\* connect(), line 93: self.cargo.connect()
connect_cargo(t) ==
    /\ pc[t] = "connect_cargo"
    /\ \/ SockConnect("cargo") /\ Goto(t, "gfv_read")
       \/ End(t, "raised") /\ UNCHANGED sockVars
    /\ UNCHANGED <<info, cargoLog, cacheVars, pushVars>>

\* get_firmware_version(), line 350: cargo_read(CORE_GET_VERSION, 19*3)
gfv_read(t) ==
    /\ pc[t] = "gfv_read"
    /\ Put(t, "CORE_GET_VERSION")
    /\ \E r \in ResultOutcomes :
        IF r = "raise"
        THEN End(t, "raised") /\ UNCHANGED info
        ELSE /\ Goto(t, "gfv_reset")
             /\ info' = [info EXCEPT ![t] = IF r = "ok" THEN "full" ELSE "short"]
    /\ UNCHANGED <<sockVars, cacheVars, pushVars>>

\* line 352: self.version = DeviceVersion()
gfv_reset(t) ==
    /\ pc[t] = "gfv_reset"
    /\ version' = EmptyVersion
    /\ Goto(t, "gfv_parse")
    /\ UNCHANGED <<sockVars, info, cargoLog, tiles, serial_number, pushVars>>

\* After get_firmware_version returns: back in connect(), or the call is over.
gfv_return(t) ==
    IF op[t] = "connect"
    THEN Goto(t, "connect_thread")
    ELSE End(t, "ok")

\* lines 354-364: the three 19-byte records fill the slots their tags name.
\* On a short payload FirmwareVersion.deserialize either raises or yields
\* records whose tag names no slot; the slots stay empty both ways.
gfv_parse(t) ==
    /\ pc[t] = "gfv_parse"
    /\ \/ /\ info[t] = "full"
          /\ version' = FullVersion
          /\ gfv_return(t)
       \/ /\ info[t] = "short"
          /\ UNCHANGED version
          /\ \/ End(t, "raised")
             \/ gfv_return(t)
    /\ UNCHANGED <<sockVars, info, cargoLog, tiles, serial_number, pushVars>>

\* connect(), lines 99-100: a new thread runs listen_pushservice.
connect_thread(t) ==
    /\ pc[t] = "connect_thread"
    /\ \E l \in Listeners :
        /\ lpc[l] = "unstarted"
        /\ \A k \in Listeners : k < l => lpc[k] # "unstarted"
        /\ lpc' = [lpc EXCEPT ![l] = "connect"]
    /\ End(t, "ok")
    /\ UNCHANGED <<sockVars, info, cargoLog, cacheVars,
                   cur, pushQ, arrived, received, surfaced>>

\* disconnect() closing the push socket without asking whether it is open.
disconnect_push_unguarded(t) ==
    /\ pc[t] = "disconnect_push"
    /\ sock' = [sock EXCEPT !["push"] = "closed"]
    /\ closes' = [closes EXCEPT !["push"] = @ + 1]
    /\ UNCHANGED opens
    /\ pushQ' = <<>>
    /\ Goto(t, "disconnect_cargo")
    /\ UNCHANGED <<info, cargoLog, cacheVars,
                   lpc, cur, arrived, received, surfaced>>

\* disconnect(), line 103: self.push.disconnect(); frames in flight are lost.
disconnect_push(t) ==
    /\ pc[t] = "disconnect_push"
    /\ SockDisconnect("push")
    /\ pushQ' = <<>>
    /\ Goto(t, "disconnect_cargo")
    /\ UNCHANGED <<info, cargoLog, cacheVars,
                   lpc, cur, arrived, received, surfaced>>

\* disconnect(), line 104: self.cargo.disconnect()
disconnect_cargo(t) ==
    /\ pc[t] = "disconnect_cargo"
    /\ SockDisconnect("cargo")
    /\ End(t, "ok")
    /\ UNCHANGED <<info, cargoLog, cacheVars, pushVars>>

\* set_theme(colors), line 234: cargo_write(START_STRIP_SYNC_START)
st_start(t) ==
    /\ pc[t] = "st_start"
    /\ Put(t, "START_STRIP_SYNC_START")
    /\ \E r \in WriteOutcomes :
        IF r = "ok" THEN Goto(t, "st_color") ELSE End(t, "raised")
    /\ UNCHANGED <<sockVars, info, cacheVars, pushVars>>

\* lines 235-236: the six colors are packed (colors holds six ints, as the
\* docstring requires) and written with SET_THEME_COLOR; the result is dropped.
st_color(t) ==
    /\ pc[t] = "st_color"
    /\ Put(t, "SET_THEME_COLOR")
    /\ \E r \in ResultOutcomes :
        IF r = "raise" THEN End(t, "raised") ELSE Goto(t, "st_end")
    /\ UNCHANGED <<sockVars, info, cacheVars, pushVars>>

\* line 237: cargo_write(START_STRIP_SYNC_END)
st_end(t) ==
    /\ pc[t] = "st_end"
    /\ Put(t, "START_STRIP_SYNC_END")
    /\ \E r \in WriteOutcomes :
        IF r = "ok" THEN End(t, "ok") ELSE End(t, "raised")
    /\ UNCHANGED <<sockVars, info, cacheVars, pushVars>>

\* get_tiles(), lines 240-242
gt_check(t) ==
    /\ pc[t] = "gt_check"
    /\ IF TilesFalsy(tiles) THEN Goto(t, "rt_read") ELSE End(t, "ok")
    /\ UNCHANGED <<sockVars, info, cargoLog, cacheVars, pushVars>>

\* request_tiles(), lines 283-342: one GET_TILES_NO_IMAGES read; the count
\* in the first four bytes says how many 88-byte records become tiles.  A
\* failed read delivers no bytes and struct.unpack (line 306) raises.
rt_read(t) ==
    /\ pc[t] = "rt_read"
    /\ Put(t, "GET_TILES_NO_IMAGES")
    /\ \E r \in ResultOutcomes :
        IF r = "ok"
        THEN /\ \E n \in 0..MaxTiles : tiles' = TileList(n)
             /\ End(t, "ok")
        ELSE /\ UNCHANGED tiles
             /\ End(t, "raised")
    /\ UNCHANGED <<sockVars, info, version, serial_number, pushVars>>

\* get_serial_number(), line 245
gsn_check(t) ==
    /\ pc[t] = "gsn_check"
    /\ IF serial_number = "None" THEN Goto(t, "gsn_read") ELSE End(t, "ok")
    /\ UNCHANGED <<sockVars, info, cargoLog, cacheVars, pushVars>>

\* lines 247-250: the number is stored only when the result is truthy.
gsn_read(t) ==
    /\ pc[t] = "gsn_read"
    /\ Put(t, "SERIAL_NUMBER_REQUEST")
    /\ \E r \in ResultOutcomes :
        CASE r = "ok" -> serial_number' = "SN" /\ End(t, "ok")
          [] r = "fail" -> UNCHANGED serial_number /\ End(t, "ok")
          [] r = "raise" -> UNCHANGED serial_number /\ End(t, "raised")
    /\ UNCHANGED <<sockVars, info, version, tiles, pushVars>>

\* set_tiles(), line 257: cargo_write(START_STRIP_SYNC_START)
stl_start(t) ==
    /\ pc[t] = "stl_start"
    /\ Put(t, "START_STRIP_SYNC_START")
    /\ \E r \in WriteOutcomes :
        IF r = "ok" THEN Goto(t, "stl_write") ELSE End(t, "raised")
    /\ UNCHANGED <<sockVars, info, cacheVars, pushVars>>

\* lines 259-278: the loop over self.tiles raises TypeError when tiles is
\* None; otherwise the records are written with SET_TILES.
stl_write(t) ==
    /\ pc[t] = "stl_write"
    /\ IF ~tiles.set
       THEN End(t, "raised") /\ UNCHANGED cargoLog
       ELSE /\ Put(t, "SET_TILES")
            /\ \E r \in ResultOutcomes :
                IF r = "raise" THEN End(t, "raised") ELSE Goto(t, "stl_end")
    /\ UNCHANGED <<sockVars, info, cacheVars, pushVars>>

\* lines 279-280: cargo_write(START_STRIP_SYNC_END); return result
stl_end(t) ==
    /\ pc[t] = "stl_end"
    /\ Put(t, "START_STRIP_SYNC_END")
    /\ \E r \in WriteOutcomes :
        IF r = "ok" THEN End(t, "ok") ELSE End(t, "raised")
    /\ UNCHANGED <<sockVars, info, cacheVars, pushVars>>

\* DeviceVersion.band_type: what the fetched firmware records say; a version
\* object whose slots are empty names no known band.
VersionBandType(v) == IF v = FullVersion THEN hw ELSE "Unknown"

\* BandDevice.band_type, lines 86-90: reading self.version raises
\* AttributeError while no get_firmware_version has assigned it.
band_type == IF version.set THEN VersionBandType(version) ELSE "AttributeError"

\* get_me_tile_image(), lines 124-130: byte_count from the band type
\* (310*102*2, 310*128*2 or 0), kept in the caller's local.
gmti_type(t) ==
    /\ pc[t] = "gmti_type"
    /\ IF band_type = "AttributeError"
       THEN End(t, "raised") /\ UNCHANGED info
       ELSE /\ Goto(t, "gmti_read")
            /\ info' = [info EXCEPT ![t] = band_type]
    /\ UNCHANGED <<sockVars, cargoLog, cacheVars, pushVars>>

\* lines 133-135: cargo_read(READ_ME_TILE_IMAGE, byte_count), then
\* b''.join(data) is returned whatever its length: "full" for byte_count
\* bytes, "short" for fewer, "empty" when byte_count is 0.
gmti_read(t) ==
    /\ pc[t] = "gmti_read"
    /\ Put(t, "READ_ME_TILE_IMAGE")
    /\ \E r \in ResultOutcomes :
        CASE r = "raise" -> End(t, "raised")
          [] r = "ok" ->
               EndWith(t, "ok", IF info[t] = "Unknown" THEN "empty" ELSE "full")
          [] r = "fail" ->
               EndWith(t, "ok", IF info[t] = "Unknown" THEN "empty" ELSE "short")
    /\ UNCHANGED <<sockVars, info, cacheVars, pushVars>>

\* What cargo_read(CARGO_SYSTEM_SETTINGS_OOBE_COMPLETED_GET, 4) hands back as
\* data: nothing, a first chunk of four bytes (zero or not), or a first
\* chunk cut short; or the read raises.
OobeOutcomes ==
    IF sock["cargo"] = "open"
    THEN {"no_data", "zero", "nonzero", "short_chunk", "raise"}
    ELSE {"raise"}

\* check_if_oobe_completed(), lines 106-111: struct.unpack("<I", data[0])
\* raises on a chunk that is not four bytes long.
oobe_read(t) ==
    /\ pc[t] = "oobe_read"
    /\ Put(t, "OOBE_COMPLETED_GET")
    /\ \E r \in OobeOutcomes :
        CASE r = "raise" -> End(t, "raised")
          [] r = "short_chunk" -> End(t, "raised")
          [] r = "no_data" -> EndWith(t, "ok", "False")
          [] r = "zero" -> EndWith(t, "ok", "False")
          [] r = "nonzero" -> EndWith(t, "ok", "True")
    /\ UNCHANGED <<sockVars, info, cacheVars, pushVars>>

\* ------------------------------------------------------ push listener
\* Byte counts the decoders need (slices of `result`).
HeaderLen == 2
NotificationMinLen == 22
TileCallbackMinLen == 26
FullFrameLen == 84

\* Packet-type values the band may send: enum members the listener decodes,
\* members it passes through, and values outside the enum.
PacketValues ==
    {WakeApp, RemoteSubscription, 2, Sms, DismissCall, StrappEvent,
     KeyboardSetContent, 65535}
\* Frame lengths: shorter than the header, shorter than a notification body,
\* shorter than a tile-callback body, and complete.
FrameLens == {1, NotificationMinLen - 1, TileCallbackMinLen - 1, FullFrameLen}
\* A frame shorter than the header carries no packet type.
Frames ==
    {f \in [ptype : PacketValues, len : FrameLens] :
        f.len < HeaderLen => f.ptype = 0}

\* process_notification_callback(), lines 177-188: struct.unpack of
\* result[2:6] and uuid.UUID(bytes_le=result[6:22]) raise on a short slice.
process_notification_callback(f) ==
    IF f.len < NotificationMinLen THEN {"raise"} ELSE {"notification"}

\* process_tile_callback(), lines 162-174: struct.unpack of result[6:10] and
\* uuid.UUID(bytes_le=result[10:26]) raise on a short slice.
process_tile_callback(f) ==
    IF f.len < TileCallbackMinLen THEN {"raise"} ELSE {"tile"}

\* decode_sensor_reading (libband/sensors.py): decodes a complete frame; on a
\* truncated one it may decode what is there or raise.
decode_sensor_reading(f) ==
    IF f.len < FullFrameLen THEN {"sensor", "raise"} ELSE {"sensor"}

\* One pass of the loop body, lines 198-212: how it can end for frame f.
\* "raise" is an exception that leaves listen_pushservice.
Classify(f) ==
    IF f.len < HeaderLen THEN {"raise"}
    ELSE IF f.ptype \notin PushServicePacketType THEN {"raise"}
    ELSE IF f.ptype = RemoteSubscription THEN decode_sensor_reading(f)
    ELSE IF f.ptype \in {Sms, DismissCall} THEN process_notification_callback(f)
    ELSE IF f.ptype = StrappEvent THEN process_tile_callback(f)
    ELSE {"raw"}

\* What the pass hands to the wrapper: line 209 prints the frame's bytes
\* before the tile callback is decoded.
Emitted(f, k) ==
    (IF f.len >= HeaderLen /\ f.ptype = StrappEvent
     THEN <<[n |-> f.n, kind |-> "hex"]>> ELSE <<>>)
    \o (IF k = "raise" THEN <<>> ELSE <<[n |-> f.n, kind |-> k]>>)

\* The band sends a frame on the open push connection.
band_push(f) ==
    /\ sock["push"] = "open"
    /\ arrived < MaxFrames
    /\ arrived' = arrived + 1
    /\ pushQ' = Append(pushQ, [n |-> arrived + 1, ptype |-> f.ptype, len |-> f.len])
    /\ UNCHANGED <<sockVars, callerVars, hw, helperVars, cargoLog, cacheVars, tornDown,
                   lpc, cur, received, surfaced>>

\* listen_pushservice(), line 191: self.push.connect(), outside the try: an
\* OSError raised by it leaves the thread's function.
push_connect(l) ==
    /\ lpc[l] = "connect"
    /\ \/ SockConnect("push") /\ lpc' = [lpc EXCEPT ![l] = "receive"]
       \/ UNCHANGED sockVars /\ lpc' = [lpc EXCEPT ![l] = "connect_failed"]
    /\ UNCHANGED <<callerVars, hw, helperVars, cargoLog, cacheVars, tornDown,
                   cur, pushQ, arrived, received, surfaced>>

\* line 194: self.push.receive() returns the next frame.
push_receive(l) ==
    /\ lpc[l] = "receive"
    /\ sock["push"] = "open"
    /\ pushQ # <<>>
    /\ cur' = [cur EXCEPT ![l] = Head(pushQ)]
    /\ pushQ' = Tail(pushQ)
    /\ received' = Append(received, Head(pushQ))
    /\ lpc' = [lpc EXCEPT ![l] = "dispatch"]
    /\ UNCHANGED <<sockVars, callerVars, hw, helperVars, cargoLog, cacheVars, tornDown,
                   arrived, surfaced>>

\* lines 195-196: receive() raises OSError (the socket is closed, or I/O on
\* the open connection fails); the loop breaks and the thread ends.
push_receive_error(l) ==
    /\ lpc[l] = "receive"
    /\ lpc' = [lpc EXCEPT ![l] = "done"]
    /\ UNCHANGED <<sockVars, callerVars, hw, helperVars, cargoLog, cacheVars, tornDown,
                   cur, pushQ, arrived, received, surfaced>>

\* The loop body made to fetch the tile list itself before it hands the
\* frame on.
push_dispatch_fetching(l) ==
    /\ lpc[l] = "dispatch"
    /\ \E k \in Classify(cur[l]) :
        /\ surfaced' = surfaced \o Emitted(cur[l], k)
        /\ lpc' = [lpc EXCEPT ![l] = IF k = "raise" THEN "crashed" ELSE "receive"]
    /\ tiles' = TileList(0)
    /\ UNCHANGED <<sockVars, callerVars, hw, helperVars, cargoLog, version,
                   serial_number, tornDown, cur, pushQ, arrived, received>>

\* lines 198-212: the frame is classified and handed on; an exception other
\* than receive's OSError is caught nowhere and ends the thread.
push_dispatch(l) ==
    /\ lpc[l] = "dispatch"
    /\ \E k \in Classify(cur[l]) :
        /\ surfaced' = surfaced \o Emitted(cur[l], k)
        /\ lpc' = [lpc EXCEPT ![l] = IF k = "raise" THEN "crashed" ELSE "receive"]
    /\ UNCHANGED <<sockVars, callerVars, hw, helperVars, cargoLog, cacheVars, tornDown,
                   cur, pushQ, arrived, received>>

\* --------------------------------------------------------- process_push
\* Identifiers a service may carry and an event may name.
Guids == {"guid_a", "guid_b"}

\* What service.push hands back: "none" stands for every falsy value
\* (None, an empty message), the others for replacement messages.
Replies == {"none", "reply_a", "reply_b"}

\* self.services.values(): the registered handlers in insertion order, each
\* with its guid and the reply its push() gives.
ServiceLists ==
    UNION {[1..n -> [guid : Guids, reply : Replies]] : n \in 0..MaxHandlers}

\* process_push(guid, command, message) called on a services table.
RouteInputs ==
    {[st |-> "loop", services |-> sv, guid |-> g, i |-> 1,
      message |-> "original", invoked |-> <<>>] :
        sv \in ServiceLists, g \in Guids}

\* One iteration of the loop with the break left out: every replacement
\* overwrites the one before.
process_push_step_nobreak ==
    /\ route.st = "loop"
    /\ route.i <= Len(route.services)
    /\ LET service == route.services[route.i]
       IN  IF service.guid = route.guid
           THEN route' = [route EXCEPT
                    !.invoked = Append(@, route.i),
                    !.message = IF service.reply # "none"
                                THEN service.reply ELSE @,
                    !.i = @ + 1]
           ELSE route' = [route EXCEPT !.i = @ + 1]
    /\ UNCHANGED <<deviceVars, fw, td>>

\* One iteration of "for service in self.services.values()".
process_push_step ==
    /\ route.st = "loop"
    /\ route.i <= Len(route.services)
    /\ LET service == route.services[route.i]
       IN  IF service.guid = route.guid
           THEN IF service.reply # "none"
                THEN route' = [route EXCEPT
                         !.invoked = Append(@, route.i),
                         !.message = service.reply,
                         !.st = "broke"]
                ELSE route' = [route EXCEPT
                         !.invoked = Append(@, route.i),
                         !.i = @ + 1]
           ELSE route' = [route EXCEPT !.i = @ + 1]
    /\ UNCHANGED <<deviceVars, fw, td>>

\* "return message", after the break or once the table is exhausted.
process_push_return ==
    /\ \/ route.st = "broke"
       \/ route.st = "loop" /\ route.i > Len(route.services)
    /\ route' = [route EXCEPT !.st = "returned"]
    /\ UNCHANGED <<deviceVars, fw, td>>

\* ------------------------------------------- get_firmware_version parsing
\* Bytes of one firmware record and records in a CORE_GET_VERSION response
\* (line 350: 19*3; line 355: range(0, 3)).
RecordLen == 19
RecordCount == 3

\* A firmware record: the tag FirmwareVersion.deserialize reads as app_name,
\* and the rest of its bytes.
AppNames == {"1BL", "2UP", "App", "Oth"}
Records == [app_name : AppNames, body : {"x", "y"}]

\* b''.join(info): RecordCount records of RecordLen bytes each.
Payloads == [1..RecordCount -> Records]

\* FirmwareVersion.deserialize(info[offset:offset+RecordLen]): the record
\* that starts at the offset; a slice that straddles two records or runs off
\* the payload decodes to no tagged record.
deserialize(bytes, offset) ==
    IF offset % RecordLen = 0 /\ offset \div RecordLen < Len(bytes)
    THEN bytes[(offset \div RecordLen) + 1]
    ELSE [app_name |-> "Oth", body |-> "garbage"]

\* The loop body with the slot chosen by the record's position instead of
\* its tag.
gfv_loop_by_position ==
    /\ fw.st = "loop"
    /\ fw.i < RecordCount
    /\ LET fw_version == deserialize(fw.info, fw.offset)
       IN  fw' = [fw EXCEPT
                !.bootloader = IF fw.i = 0 THEN fw_version ELSE @,
                !.updater = IF fw.i = 1 THEN fw_version ELSE @,
                !.application = IF fw.i = 2 THEN fw_version ELSE @,
                !.offset = @ + RecordLen,
                !.i = @ + 1]
    /\ UNCHANGED <<deviceVars, route, td>>

\* lines 355-363: one pass of "for i in range(0, 3)".
gfv_loop ==
    /\ fw.st = "loop"
    /\ fw.i < RecordCount
    /\ LET fw_version == deserialize(fw.info, fw.offset)
       IN  fw' = [fw EXCEPT
                !.bootloader =
                    IF fw_version.app_name = "1BL" THEN fw_version ELSE @,
                !.updater =
                    IF fw_version.app_name = "2UP" THEN fw_version ELSE @,
                !.application =
                    IF fw_version.app_name = "App" THEN fw_version ELSE @,
                !.offset = @ + RecordLen,
                !.i = @ + 1]
    /\ UNCHANGED <<deviceVars, route, td>>

\* line 364: return self.version
gfv_loop_return ==
    /\ fw.st = "loop"
    /\ fw.i = RecordCount
    /\ fw' = [fw EXCEPT !.st = "returned"]
    /\ UNCHANGED <<deviceVars, route, td>>

\* ------------------------------------------------ request_tiles decoding
\* Layout of the response (lines 283-287, 306-307) and of one tile record
\* (lines 313-324); set_tiles writes the name as 30 characters of two bytes
\* each, which fill the record from NameBegin to its end (line 272).
MaxTileCapacity == 15
TileRecordLen == 88
CountLen == 4
IconLen == 1024
OrderBegin == 16
ColorBegin == 20
NameLengthBegin == 24
MaskBegin == 26
NameBegin == 28
NameEnd == 80
BytesPerChar == 2

\* A tile record on the wire.  A name is told by its length in characters:
\* none, a short one, one that fills the name field.
NameChars == {0, 5, (TileRecordLen - NameBegin) \div BytesPerChar}
TileRecords ==
    [guid : {101, 102}, order : {0, 1}, theme_color : {7}, name_length : NameChars,
     settings_mask : {3}, name : NameChars]

\* The tile table of a response: the count is the number of records.
TileTables == UNION {[1..n -> TileRecords] : n \in 0..MaxTileRecords}

\* Where the tile table starts in the response: GET_TILES puts
\* MaxTileCapacity icons of IconLen bytes before it.
TableBegin(icons) == IF icons THEN MaxTileCapacity * IconLen ELSE 0

\* The field that starts at byte `at` of a response; -1 stands for the bytes
\* found anywhere else.
FieldAt(icons, records, at) ==
    LET rel == at - TableBegin(icons) - CountLen
        k == (rel \div TileRecordLen) + 1
        off == rel % TileRecordLen
    IN  IF rel < 0 \/ k > Len(records) THEN -1
        ELSE CASE off = 0 -> records[k].guid
               [] off = OrderBegin -> records[k].order
               [] off = ColorBegin -> records[k].theme_color
               [] off = NameLengthBegin -> records[k].name_length
               [] off = MaskBegin -> records[k].settings_mask
               [] off = NameBegin -> records[k].name
               [] OTHER -> -1

\* struct.unpack("<I", tile_data[begin:begin+4]): the count stands at the
\* start of the table.
CountAt(icons, records, at) ==
    IF at = TableBegin(icons) THEN Len(records) ELSE -1

\* MsftBandParser.bytes_to_text(tile_data[begin+28:begin+80]): the text of
\* the characters that lie within the slice.
bytes_to_text(chars) ==
    IF chars < 0 THEN -1
    ELSE IF chars * BytesPerChar <= NameEnd - NameBegin THEN chars
    ELSE (NameEnd - NameBegin) \div BytesPerChar

\* lines 300-303: with icons, MaxTileCapacity blocks of IconLen bytes are
\* taken off the front.
rt_icons ==
    /\ td.st = "icons"
    /\ td' = [td EXCEPT
            !.begin = IF td.icons THEN @ + MaxTileCapacity * IconLen ELSE @,
            !.st = "count"]
    /\ UNCHANGED <<deviceVars, route, fw>>

\* lines 306-308: the count, then begin += 4.
rt_count ==
    /\ td.st = "count"
    /\ td' = [td EXCEPT
            !.tile_count = CountAt(td.icons, td.records, td.begin),
            !.begin = @ + CountLen,
            !.i = 0,
            !.st = "loop"]
    /\ UNCHANGED <<deviceVars, route, fw>>

\* lines 311-341: one pass of "while i < tile_count".
rt_tile ==
    /\ td.st = "loop"
    /\ td.i < td.tile_count
    /\ LET field(off) == FieldAt(td.icons, td.records, td.begin + off)
           name_length == field(NameLengthBegin)
       IN  td' = [td EXCEPT
                !.tile_list = Append(@,
                    [guid |-> field(0),
                     order |-> field(OrderBegin),
                     theme_color |-> field(ColorBegin),
                     name_length |-> name_length,
                     settings_mask |-> field(MaskBegin),
                     name |-> IF name_length # 0
                              THEN bytes_to_text(field(NameBegin)) ELSE 0]),
                !.begin = @ + TileRecordLen,
                !.i = @ + 1]
    /\ UNCHANGED <<deviceVars, route, fw>>

\* line 342: self.tiles = tile_list
rt_store ==
    /\ td.st = "loop"
    /\ td.i >= td.tile_count
    /\ td' = [td EXCEPT !.st = "returned"]
    /\ UNCHANGED <<deviceVars, route, fw>>

\* ------------------------------------------------------- specifications
LifecycleStep(t) ==
    \/ connect_cargo(t)
    \/ gfv_read(t)
    \/ gfv_reset(t)
    \/ gfv_parse(t)
    \/ connect_thread(t)
    \/ disconnect_push(t)
    \/ disconnect_cargo(t)

\* The steps of connect() alone.
ConnectStep(t) ==
    \/ connect_cargo(t)
    \/ gfv_read(t)
    \/ gfv_reset(t)
    \/ gfv_parse(t)
    \/ connect_thread(t)

CargoStep(t) ==
    \/ st_start(t)
    \/ st_color(t)
    \/ st_end(t)
    \/ gt_check(t)
    \/ rt_read(t)
    \/ gsn_check(t)
    \/ gsn_read(t)
    \/ stl_start(t)
    \/ stl_write(t)
    \/ stl_end(t)
    \/ gmti_type(t)
    \/ gmti_read(t)
    \/ oobe_read(t)

ListenerStep(l) ==
    \/ push_connect(l)
    \/ push_receive(l)
    \/ push_receive_error(l)
    \/ push_dispatch(l)

\* The device's life cycle and its push path: the main thread connects and
\* disconnects, the band pushes frames, the listener threads run.
Next ==
    \/ \E o \in LifecycleOps : Begin("main", o)
    \/ LifecycleStep("main")
    \/ \E l \in Listeners : ListenerStep(l)
    \/ \E f \in Frames : band_push(f)

Spec == Init /\ [][Next]_vars

\* The command path: the main thread runs facade operations on the cargo
\* channel, and once connect() has returned a second thread may run the
\* bracketed ones beside it.  The listener threads, which touch neither the
\* cargo channel nor the cache, are left unscheduled here.
NextCargo ==
    \/ \E o \in Ops : Begin("main", o)
    \/ \E o \in BracketedOps : BeginAux(o)
    \/ \E t \in Callers : LifecycleStep(t)
    \/ \E t \in Callers : CargoStep(t)

\* The command path is run against each kind of band.
InitCargo ==
    /\ DeviceInit
    /\ hw \in BandTypes
    /\ route = NoRoute
    /\ fw = NoFw
    /\ td = NoTd

SpecCargo == InitCargo /\ [][NextCargo]_vars

\* The life cycle alone: as Spec, with a band that pushes no frame.
NextLifecycle ==
    \/ \E o \in LifecycleOps : Begin("main", o)
    \/ LifecycleStep("main")
    \/ \E l \in Listeners : push_connect(l)
    \/ \E l \in Listeners : push_receive_error(l)

SpecLifecycle == Init /\ [][NextLifecycle]_vars

\* Both paths side by side: the main thread connects (again and again) and
\* fills the tile cache while the listener threads take events off the push
\* channel: complete tile events and notifications cut short.
PushOps == {"connect", "get_tiles"}
PushFrames ==
    {f \in Frames : \/ f.ptype = Sms /\ f.len = NotificationMinLen - 1
                    \/ f.ptype = StrappEvent /\ f.len = FullFrameLen}

NextPush ==
    \/ \E o \in PushOps : Begin("main", o)
    \/ ConnectStep("main")
    \/ gt_check("main")
    \/ rt_read("main")
    \/ \E l \in Listeners : ListenerStep(l)
    \/ \E f \in PushFrames : band_push(f)

SpecPush == Init /\ [][NextPush]_vars

\* process_push alone, on every services table and event identifier.
InitRoute ==
    /\ DeviceInit
    /\ hw = "Cargo"
    /\ route \in RouteInputs
    /\ fw = NoFw
    /\ td = NoTd

NextRoute ==
    \/ process_push_step
    \/ process_push_return

SpecRoute == InitRoute /\ [][NextRoute]_vars

\* The parsing loop of get_firmware_version alone, on every payload of
\* three records: lines 352-353 have emptied the slots and set offset = 0.
InitVersion ==
    /\ DeviceInit
    /\ hw = "Cargo"
    /\ route = NoRoute
    /\ fw \in {[NoFw EXCEPT !.st = "loop", !.info = p] : p \in Payloads}
    /\ td = NoTd

NextVersion ==
    \/ gfv_loop
    \/ gfv_loop_return

SpecVersion == InitVersion /\ [][NextVersion]_vars

\* The decoding of request_tiles alone, on every tile table of up to
\* MaxTileRecords records, asked for with icons or without.
InitTiles ==
    /\ DeviceInit
    /\ hw = "Cargo"
    /\ route = NoRoute
    /\ fw = NoFw
    /\ td \in {[NoTd EXCEPT !.st = "icons", !.icons = ic, !.records = r] :
                ic \in BOOLEAN, r \in TileTables}

NextTiles ==
    \/ rt_icons
    \/ rt_count
    \/ rt_tile
    \/ rt_store

SpecTiles == InitTiles /\ [][NextTiles]_vars

\* ---------------------------------------------------------------- claims
\* Commands put on the cargo channel so far that carry command cmd.
Count(cmd) == Cardinality({i \in 1..Len(cargoLog) : cargoLog[i].cmd = cmd})

\* The commands caller t's current (or last) call has put on the channel.
CallSends(t) ==
    LET mine(e) == e.t = t /\ e.call = CallOf(t)
        sel == SelectSeq(cargoLog, mine)
    IN  [i \in 1..Len(sel) |-> sel[i].cmd]

\* The caller's call of operation o is over.
Over(t, o) == op[t] = o /\ pc[t] = "idle" /\ res[t] # "none"

\* C1: on a connected device, a set_theme call (of the main thread) that got
\* as far as its middle send has put exactly START_STRIP_SYNC_START,
\* SET_THEME_COLOR, START_STRIP_SYNC_END on the cargo channel, in this order,
\* whatever the outcome of the middle send.
C1_ThemeThreeSends ==
    (/\ done["connect"] >= 1
     /\ Over("main", "set_theme")
     /\ Len(CallSends("main")) >= 2)
    => CallSends("main") = <<"START_STRIP_SYNC_START", "SET_THEME_COLOR",
                             "START_STRIP_SYNC_END">>

\* The frame has the bytes every decoder needs.
WellFormed(f) == f.n > 0 /\ f.len = FullFrameLen
\* The frame is too short for its header or for the body its type announces.
Malformed(f) ==
    /\ f.n > 0
    /\ \/ f.len < HeaderLen
       \/ f.ptype \in {Sms, DismissCall} /\ f.len < NotificationMinLen
       \/ f.ptype = StrappEvent /\ f.len < TileCallbackMinLen
\* An event or the raw bytes of frame number n went to the wrapper.
Surfaced(n) ==
    \E i \in 1..Len(surfaced) : surfaced[i].n = n /\ surfaced[i].kind # "hex"
\* The listener thread's function was left by an exception.
Crashed(l) == lpc[l] \in {"crashed", "connect_failed"}

\* C2: for every packet-type value, the pass of the loop over a well-formed
\* frame ends with an event or the raw bytes surfaced and the loop running.
C2_ClassificationTotal ==
    \A l \in Listeners :
        (WellFormed(cur[l]) /\ lpc[l] # "dispatch")
        => (~Crashed(l) /\ Surfaced(cur[l].n))

\* C3: a malformed frame does not stop the listener.
C3_MalformedFrameIsolated ==
    \A l \in Listeners : Malformed(cur[l]) => ~Crashed(l)

\* C4: once disconnect() has returned, no listener thread is left in (or on
\* its way back to) receive on an open push connection.
C4_ListenerStopsAfterDisconnect ==
    tornDown =>
        \A l \in Listeners :
            ~(lpc[l] \in {"receive", "dispatch"} /\ sock["push"] = "open")

\* C5: on a connected device, two returned calls of a cache-backed getter
\* have issued exactly one cargo read between them.
C5_OneReadPerGetter ==
    done["connect"] >= 1 =>
        /\ done["get_tiles"] >= 2 => Count("GET_TILES_NO_IMAGES") = 1
        /\ done["get_serial_number"] >= 2 => Count("SERIAL_NUMBER_REQUEST") = 1

\* C6: once the version is populated, no step issues a CORE_GET_VERSION read.
C6_VersionReadOnce ==
    [][version = FullVersion
       => Count("CORE_GET_VERSION")' = Count("CORE_GET_VERSION")]_vars

\* C7: the commands of one facade call are contiguous on the cargo channel:
\* no command of another call lies between two of them.
C7_NoInterleaving ==
    \A i, k \in 1..Len(cargoLog) :
        (i < k /\ cargoLog[i].t = cargoLog[k].t
               /\ cargoLog[i].call = cargoLog[k].call)
        => \A j \in i..k : cargoLog[j].t = cargoLog[i].t

C9_TransportErrorEndsCleanly ==
    \A l \in Listeners : cur[l] = NoFrame => ~Crashed(l)

\* The frame numbers of the events handed to the wrapper, in order.
SurfacedFrames ==
    LET ev(e) == e.kind # "hex"
        sel == SelectSeq(surfaced, ev)
    IN  [i \in 1..Len(sel) |-> sel[i].n]

\* C10: whenever no listener is inside a pass of its loop and the frames
\* received so far are well-formed, the events handed on are those of the
\* frames received, one each, in the order received.
C10_ArrivalOrder ==
    (/\ \A l \in Listeners : lpc[l] # "dispatch"
     /\ \A i \in 1..Len(received) : WellFormed(received[i]))
    => SurfacedFrames = [i \in 1..Len(received) |-> received[i].n]

\* C12: on a connected device, a set_tiles call whose
\* START_STRIP_SYNC_START went out (it stands before its bulk write) goes on
\* to send START_STRIP_SYNC_END: from the bulk write it never leaves but to
\* the end marker, whatever the tile cache holds and whatever the bulk write
\* does.
C12_SetTilesBracketed ==
    [][(done["connect"] >= 1 /\ pc["main"] = "stl_write")
        => pc'["main"] \in {"stl_write", "stl_end"}]_vars

\* C13: a get_me_tile_image call on a connected device that returns has
\* returned all the bytes it asked for (or none, having asked for none):
\* when the read delivers fewer the call does not return normally.
C13_ShortReadReported ==
    (/\ done["connect"] >= 1
     /\ Over("main", "get_me_tile_image")
     /\ res["main"] = "ok")
    => ret["main"] \in {"full", "empty"}

\* C14: a version seen with its three slots filled keeps them filled in
\* every later state.
C14_CacheMonotonic ==
    [][version = FullVersion => version' = FullVersion]_vars

\* C16: get_me_tile_image called on an open cargo connection while the
\* firmware version has not been fetched does not raise and returns the
\* empty image.
C16_UnknownVariantEmptyImage ==
    (/\ sock["cargo"] = "open"
     /\ ~version.set
     /\ Over("main", "get_me_tile_image"))
    => (res["main"] = "ok" /\ ret["main"] = "empty")

\* C17: on a connected device with its cargo connection open,
\* check_if_oobe_completed always returns (true or false), whatever the
\* read did.
C17_OobeNeverPropagates ==
    (/\ done["connect"] >= 1
     /\ sock["cargo"] = "open"
     /\ Over("main", "check_if_oobe_completed"))
    => (res["main"] = "ok" /\ ret["main"] \in {"True", "False"})

\* A listener thread takes a step of listen_pushservice.
ListenerMoves ==
    \E l \in Listeners : lpc[l] # "unstarted" /\ lpc'[l] # lpc[l]

\* C15: no step of a push listener (connecting the push socket, receiving,
\* classifying and handing on a frame) changes version, serial_number or
\* tiles, sends a command on the cargo channel, or opens or closes the cargo
\* connection.
C15_PushPathFrame ==
    [][ListenerMoves =>
        /\ UNCHANGED <<version, serial_number, tiles, cargoLog>>
        /\ sock'["cargo"] = sock["cargo"]
        /\ opens'["cargo"] = opens["cargo"]
        /\ closes'["cargo"] = closes["cargo"]]_vars

\* A listener has handed on a tile event while the tile cache is populated
\* and the main thread is about to send a cargo command.
C15_Witness ==
    /\ \E i \in 1..Len(surfaced) : surfaced[i].kind = "tile"
    /\ tiles.set
    /\ version = FullVersion
    /\ pc["main"] = "gfv_read"
    /\ \E l \in Listeners : lpc[l] = "dispatch"

\* The payload holds one record of each of the three tags, in some order.
OneOfEach ==
    {fw.info[k].app_name : k \in 1..Len(fw.info)} = {"1BL", "2UP", "App"}
\* The record of the payload that carries the tag.
Tagged(tag) == fw.info[CHOOSE k \in 1..Len(fw.info) : fw.info[k].app_name = tag]

\* C18: whatever the order of the 1BL, 2UP and App records in the payload,
\* get_firmware_version returns with the 1BL record in the bootloader slot,
\* the 2UP record in the updater slot and the App record in the application
\* slot.
C18_OrderIndependent ==
    (fw.st = "returned" /\ OneOfEach) =>
        /\ fw.bootloader = Tagged("1BL")
        /\ fw.updater = Tagged("2UP")
        /\ fw.application = Tagged("App")

\* A payload in the order App, 1BL, 2UP has been parsed into its slots.
C18_Witness ==
    /\ fw.st = "returned"
    /\ fw.info[1].app_name = "App"
    /\ fw.info[2].app_name = "1BL"
    /\ fw.info[3].app_name = "2UP"
    /\ fw.application = fw.info[1]
    /\ fw.bootloader = fw.info[2]
    /\ fw.updater = fw.info[3]
    /\ fw.info[1].body # fw.info[2].body

\* A record whose name length field is the length of the name it carries.
WellFormedRecord(r) == r.name_length = r.name

\* C19: for a table of n well-formed records request_tiles stores exactly n
\* tiles, the i-th with the GUID, order, theme color, name length, settings
\* mask and name of the i-th record.
C19_TileTableDecoded ==
    (/\ td.st = "returned"
     /\ \A k \in 1..Len(td.records) : WellFormedRecord(td.records[k]))
    => td.tile_list = td.records

\* The listener threads inside the receive loop of listen_pushservice.
LiveListeners == {l \in Listeners : lpc[l] \in {"receive", "dispatch"}}

\* C20: at most one listener thread at a time is receiving on the push
\* connection.
C20_OneListener == Cardinality(LiveListeners) <= 1

\* The handlers whose guid is the event's, and those of them that reply.
Matching == {k \in 1..Len(route.services) : route.services[k].guid = route.guid}
Replacing == {k \in Matching : route.services[k].reply # "none"}
FirstOf(S) == CHOOSE k \in S : \A j \in S : k <= j

\* C11: process_push invokes only handlers whose guid equals the event's;
\* it returns the replacement of the first such handler that gives one and
\* invokes no handler after it; when no handler matches or every matching
\* handler declines it returns the original message.
C11_RoutesByGuid ==
    /\ \A n \in 1..Len(route.invoked) : route.invoked[n] \in Matching
    /\ route.st = "returned" =>
        IF Replacing = {}
        THEN /\ route.message = "original"
             /\ {route.invoked[n] : n \in 1..Len(route.invoked)} = Matching
        ELSE /\ route.message = route.services[FirstOf(Replacing)].reply
             /\ \A n \in 1..Len(route.invoked) :
                    route.invoked[n] <= FirstOf(Replacing)

\* A handler of another guid was skipped, one declined, one replied, and a
\* later matching handler with another reply was never reached.
C11_Witness ==
    /\ route.st = "returned"
    /\ Len(route.services) = 3
    /\ route.services[1].guid # route.guid
    /\ route.services[2].guid = route.guid
    /\ route.services[2].reply = "reply_a"
    /\ route.services[3].guid = route.guid
    /\ route.services[3].reply = "reply_b"
    /\ route.message = "reply_a"
    /\ route.invoked = <<2>>

====
